---- MODULE Spec2Model ----
(***************************************************************************)
(* Model of scripts/1-fetch/internetarchive_fetched.py: the license list   *)
(* loader, the per-license query loop, the CSV recorder, the YAML state    *)
(* store and the orchestrator main(), run repeatedly over the same files.  *)
(***************************************************************************)
EXTENDS Integers, Sequences, FiniteSets, TLC

VARIABLES
    manifest,      \* legal-tool-paths.txt: a sequence of lines (char sequences)
    csv,           \* internetarchive_fetched.csv: [exists, lines]
    stateFile,     \* PATHS["state"]: [exists, text] (YAML text)
    pc,            \* position of the running process
    args,          \* args.licenses of the current run
    state,         \* main's local state mapping
    total,         \* main's local total_docs_retrieved
    licenses,      \* retrieve_license_data's local licenses
    idx,           \* position of the for loop in licenses (1-based)
    docs,          \* retrieve_license_data's local total_docs_retrieved
    exitCode,      \* exit code of the last finished run (-1: none yet)
    runs,          \* number of runs started
    startCsv,      \* history: csv when the current run started
    startState,    \* history: stateFile when the current run started
    netCalls,      \* history: network operations of the current run
    queried,       \* history: licenses queried by the current run
    results,       \* history: counts get_response_elems returned in the current run
    recorded,      \* history: rows record_results wrote in the current run
    commits,       \* history: add_and_commit calls of the current run
    pushes,        \* history: push_changes calls of the current run
    failedAt,      \* history: loop position at which the current run's query raised (0: none)
    fetchedBefore, \* history: licenses recorded by earlier successful runs
    aborted,       \* history: some run so far ended on an exception
    parsed,        \* pure-function specifications: result of get_license_list
    reparsed,      \* pure-function specifications: the extraction applied to that result
    saved,         \* pure-function specifications: the mapping given to save_state
    loaded         \* pure-function specifications: the mapping load_state returned

vars == <<manifest, csv, stateFile, pc, args, state, total, licenses, idx, docs,
          exitCode, runs, startCsv, startState, netCalls, queried, results,
          recorded, commits, pushes, failedAt, fetchedBefore, aborted,
          parsed, reparsed, saved, loaded>>

----------------------------------------------------------------------------
(* Bounds *)

MaxLen == 7        \* longest free manifest line in the parsing specification
MaxLines == 3      \* most lines of a manifest in the parsing specification
MaxRuns == 3       \* runs of main in one behaviour
MaxArg == 1        \* largest explicit --licenses value (the default is also drawn)
MaxStateValue == 120 \* largest integer stored by the state round-trip specification

----------------------------------------------------------------------------
(* Program constants *)

goal_documents == 1000
DefaultLicenses == 10
StateKey == "total_records_retrieved (internet archive)"
OtherKey == "updated"
HeaderLine == [f1 |-> <<"LICENSE TYPE">>, f2 |-> <<"Document Count">>]

\* Results the archive search can return for one license (len(search_data)).
QueryCounts == {0, 400, 600}

----------------------------------------------------------------------------
(* Sequences *)

Range(s) == {s[i] : i \in 1..Len(s)}

Min(a, b) == IF a < b THEN a ELSE b

Max(a, b) == IF a > b THEN a ELSE b

SeqsUpTo(S, n) == UNION {[1..k -> S] : k \in 0..n}

\* Python's list[:n], negative n counting from the end.
Slice(list, n) ==
    IF n >= 0 THEN SubSeq(list, 1, Min(n, Len(list)))
    ELSE SubSeq(list, 1, Max(Len(list) + n, 0))

----------------------------------------------------------------------------
(* get_license_list: pandas read_csv, str.extract(license_pattern),        *)
(* dropna, unique.                                                         *)

NaN == <<>>

\* Last index of the longest run [^/]+ starting at i, i-1 when it is empty.
RECURSIVE RunEnd(_, _)
RunEnd(s, i) ==
    IF i > Len(s) \/ s[i] = "/" THEN i - 1 ELSE RunEnd(s, i + 1)

\* End of a match of ((?:[^/]+/){2}(?:[^/]+)) that starts at i, 0 if none.
MatchAt(s, i) ==
    LET e1 == RunEnd(s, i)
        e2 == RunEnd(s, e1 + 2)
        e3 == RunEnd(s, e2 + 2)
    IN  IF /\ e1 >= i /\ e1 < Len(s)
           /\ e2 >= e1 + 2 /\ e2 < Len(s)
           /\ e3 >= e2 + 2
        THEN e3 ELSE 0

\* str.extract searches the line for the leftmost match and returns group 1.
Extract(s) ==
    LET starts == {i \in 1..Len(s) : MatchAt(s, i) # 0}
    IN  IF starts = {} THEN NaN
        ELSE LET i == CHOOSE j \in starts : \A k \in starts : j <= k
             IN  SubSeq(s, i, MatchAt(s, i))

IsValue(x) == x # NaN

DropNa(col) == SelectSeq(col, IsValue)

\* Variant of Unique that keeps repeated values.
UniqueKeepsRepeats(col) == col

RECURSIVE Unique(_)
Unique(col) ==
    IF col = <<>> THEN <<>>
    ELSE LET init == Unique(SubSeq(col, 1, Len(col) - 1))
             x == col[Len(col)]
         IN  IF x \in Range(init) THEN init ELSE Append(init, x)

NonBlank(line) == Len(line) > 0

\* read_csv skips blank lines and has no column to parse when none is left.
ReadCsvRaises(m) == SelectSeq(m, NonBlank) = <<>>

\* cc_license_data[0].str.extract(...).dropna().unique()
ExtractList(column) ==
    Unique(DropNa([i \in 1..Len(column) |-> Extract(column[i])]))

get_license_list(m) == ExtractList(SelectSeq(m, NonBlank))

----------------------------------------------------------------------------
(* Text of integers: str(int) as csv.writer and yaml.safe_dump write it,   *)
(* and the YAML 1.1 integer forms yaml.safe_load resolves.                 *)

DigitChar == <<"0", "1", "2", "3", "4", "5", "6", "7", "8", "9">>

DigitVal(c) == CHOOSE d \in 0..9 : DigitChar[d + 1] = c

RECURSIVE DecDigits(_)
DecDigits(n) ==
    IF n < 10 THEN <<DigitChar[n + 1]>>
    ELSE Append(DecDigits(n \div 10), DigitChar[(n % 10) + 1])

RECURSIVE ParseBase(_, _)
ParseBase(ds, base) ==
    IF ds = <<>> THEN 0
    ELSE ParseBase(SubSeq(ds, 1, Len(ds) - 1), base) * base + DigitVal(ds[Len(ds)])

\* A scalar with a leading 0 and more digits is an octal integer in YAML 1.1.
YamlInt(ds) ==
    IF Len(ds) > 1 /\ ds[1] = "0" THEN ParseBase(Tail(ds), 8)
    ELSE ParseBase(ds, 10)

----------------------------------------------------------------------------
(* State store *)

\* safe_dump writes the keys of a mapping in sorted order.
KeyOrder == <<StateKey, OtherKey>>

safe_dump(mapping) ==
    LET Has(k) == k \in DOMAIN mapping
        keys == SelectSeq(KeyOrder, Has)
    IN  [i \in 1..Len(keys) |->
            [key |-> keys[i], value |-> DecDigits(mapping[keys[i]])]]

safe_load(text) ==
    [k \in {text[i].key : i \in 1..Len(text)} |->
        YamlInt((CHOOSE e \in Range(text) : e.key = k).value)]

NoFile == [exists |-> FALSE, text |-> <<>>]

\* Variant of load_state that never reads the file.
load_stateIgnoresFile(file) == [k \in {StateKey} |-> 0]

load_state(file) ==
    IF file.exists THEN safe_load(file.text)
    ELSE [k \in {StateKey} |-> 0]

save_state(mapping) == [exists |-> TRUE, text |-> safe_dump(mapping)]

----------------------------------------------------------------------------
(* CSV file *)

NoCsv == [exists |-> FALSE, lines |-> <<>>]

set_up_data_file == [exists |-> TRUE, lines |-> <<HeaderLine>>]

\* csv.writer writes the row [license_type, data["totalResults"]].
Row(license_type, totalResults) ==
    [f1 |-> license_type, f2 |-> DecDigits(totalResults)]

\* Variant of record_results that opens the file in "w" mode.
record_resultsOverwrites(file, license_type, totalResults) ==
    [exists |-> TRUE, lines |-> <<Row(license_type, totalResults)>>]

record_results(file, license_type, totalResults) ==
    [exists |-> TRUE, lines |-> Append(file.lines, Row(license_type, totalResults))]

----------------------------------------------------------------------------
(* Inputs *)

SampleManifests ==
    { <<>>,
      << <<"l", "/", "b", "/", "4", "/", "d">> >>,
      << <<"l", "/", "b", "/", "4", "/", "d">>,
         <<"l", "/", "b", "/", "4", "/", "e">>,
         <<"l", "/", "s", "/", "4">> >>,
      << <<"l", "/", "z">>,
         <<"l", "/", "s", "/", "4">>,
         <<"l", "/", "b", "/", "4", "/", "d">>,
         <<"l", "/", "n", "/", "3", "/", "d">> >> }

\* Values of --licenses: argparse's type=int accepts any integer.
ArgValues == (-1..MaxArg) \cup {DefaultLicenses}

----------------------------------------------------------------------------
(* The orchestrator *)

\* Variant of GoalMet that lets a total equal to the goal through.
GoalMetStrict(t) == t > goal_documents

\* if total_docs_retrieved >= goal_documents
GoalMet(t) == t >= goal_documents

\* Variant of CsvAfterSetUp that sets the data file up in every run.
CsvAfterSetUpAlways(file, t) == set_up_data_file

\* if total_docs_retrieved == 0: set_up_data_file()
CsvAfterSetUp(file, t) == IF t = 0 THEN set_up_data_file ELSE file

Init ==
    /\ manifest \in SampleManifests
    /\ csv = NoCsv
    /\ stateFile = NoFile
    /\ pc = "idle"
    /\ args = DefaultLicenses
    /\ state = load_state(NoFile)
    /\ total = 0
    /\ licenses = <<>>
    /\ idx = 1
    /\ docs = 0
    /\ exitCode = -1
    /\ runs = 0
    /\ startCsv = NoCsv
    /\ startState = NoFile
    /\ netCalls = 0
    /\ queried = <<>>
    /\ results = <<>>
    /\ recorded = <<>>
    /\ commits = 0
    /\ pushes = 0
    /\ failedAt = 0
    /\ fetchedBefore = {}
    /\ aborted = FALSE
    /\ parsed = <<>>
    /\ reparsed = <<>>
    /\ saved = <<>>
    /\ loaded = <<>>

pureVars == <<parsed, reparsed, saved, loaded>>

\* The shared harness: each of fetch_and_merge and push_changes is one
\* network operation on the remote, add_and_commit one local commit.
fetch_and_merge(n) == n + 1

add_and_commit(n) == n + 1

push_changes(n) == n + 1

\* main up to the goal check: fetch_and_merge, parse_arguments, load_state.
MainEnter(L) ==
    /\ pc \in {"idle", "done"}
    /\ runs < MaxRuns
    /\ runs' = runs + 1
    /\ netCalls' = fetch_and_merge(0)
    /\ args' = L
    /\ state' = load_state(stateFile)
    /\ total' = state'[StateKey]
    /\ startCsv' = csv
    /\ startState' = stateFile
    /\ queried' = <<>>
    /\ results' = <<>>
    /\ recorded' = <<>>
    /\ commits' = 0
    /\ pushes' = 0
    /\ failedAt' = 0
    /\ licenses' = <<>>
    /\ idx' = 1
    /\ docs' = 0
    /\ fetchedBefore' =
          IF exitCode = 0
          THEN fetchedBefore \cup {recorded[i].f1 : i \in 1..Len(recorded)}
          ELSE fetchedBefore
    /\ UNCHANGED <<manifest, csv, stateFile, aborted, pureVars>>

\* The goal is already met: main returns.
MainGoalReached(L) ==
    /\ MainEnter(L)
    /\ GoalMet(total')
    /\ pc' = "done"
    /\ exitCode' = 0

MainBegin(L) ==
    /\ MainEnter(L)
    /\ ~GoalMet(total')
    /\ pc' = "setup"
    /\ exitCode' = -1

\* makedirs, set_up_data_file when the total is 0, and the start of
\* retrieve_license_data: the license list cut at args.licenses.
SetUp ==
    /\ pc = "setup"
    /\ ~ReadCsvRaises(manifest)
    /\ csv' = CsvAfterSetUp(csv, total)
    /\ licenses' = Slice(get_license_list(manifest), args)
    /\ docs' = 0
    /\ idx' = 1
    /\ pc' = "loop"
    /\ UNCHANGED <<manifest, stateFile, args, state, total, exitCode, runs,
                   startCsv, startState, netCalls, queried, results, recorded,
                   commits, pushes, failedAt, fetchedBefore, aborted, pureVars>>

\* read_csv raises on a manifest without a line to parse: unhandled
\* exception, exit code 1.
SetUpListRaises ==
    /\ pc = "setup"
    /\ ReadCsvRaises(manifest)
    /\ csv' = CsvAfterSetUp(csv, total)
    /\ pc' = "done"
    /\ exitCode' = 1
    /\ aborted' = TRUE
    /\ UNCHANGED <<manifest, stateFile, args, state, total, licenses, idx, docs,
                   runs, startCsv, startState, netCalls, queried, results,
                   recorded, commits, pushes, failedAt, fetchedBefore, pureVars>>

\* One iteration of the loop: get_response_elems returns c documents.
QueryOk(c) ==
    /\ pc = "loop"
    /\ idx <= Len(licenses)
    /\ netCalls' = netCalls + 1
    /\ queried' = Append(queried, licenses[idx])
    /\ results' = Append(results, c)
    /\ docs' = docs + c
    /\ csv' = record_results(csv, licenses[idx], c)
    /\ recorded' = Append(recorded, Row(licenses[idx], c))
    /\ idx' = idx + 1
    /\ UNCHANGED <<manifest, stateFile, pc, args, state, total, licenses,
                   exitCode, runs, startCsv, startState, commits, pushes,
                   failedAt, fetchedBefore, aborted, pureVars>>

\* Variant of QueryRaises that skips the failing license and goes on.
QueryRaisesContinues ==
    /\ pc = "loop"
    /\ idx <= Len(licenses)
    /\ netCalls' = netCalls + 1
    /\ queried' = Append(queried, licenses[idx])
    /\ failedAt' = idx
    /\ idx' = idx + 1
    /\ aborted' = TRUE
    /\ UNCHANGED <<manifest, csv, stateFile, pc, args, state, total, licenses,
                   docs, exitCode, runs, startCsv, startState, results,
                   recorded, commits, pushes, fetchedBefore, pureVars>>

\* Variant of QueryRaises that saves the partial total before raising.
QueryRaisesSavesState ==
    /\ pc = "loop"
    /\ idx <= Len(licenses)
    /\ netCalls' = netCalls + 1
    /\ queried' = Append(queried, licenses[idx])
    /\ failedAt' = idx
    /\ stateFile' = save_state([state EXCEPT ![StateKey] = total + docs])
    /\ pc' = "done"
    /\ exitCode' = 1
    /\ aborted' = TRUE
    /\ UNCHANGED <<manifest, csv, args, state, total, licenses, idx,
                   docs, runs, startCsv, startState, results, recorded, commits,
                   pushes, fetchedBefore, pureVars>>

\* get_response_elems catches an exception and raises
\* QuantifyingException(..., 1); __main__ exits with its exit code.
QueryRaises ==
    /\ pc = "loop"
    /\ idx <= Len(licenses)
    /\ netCalls' = netCalls + 1
    /\ queried' = Append(queried, licenses[idx])
    /\ failedAt' = idx
    /\ pc' = "done"
    /\ exitCode' = 1
    /\ aborted' = TRUE
    /\ UNCHANGED <<manifest, csv, stateFile, args, state, total, licenses, idx,
                   docs, runs, startCsv, startState, results, recorded, commits,
                   pushes, fetchedBefore, pureVars>>

\* KeyboardInterrupt during a query is not an Exception: exit code 130.
QueryInterrupted ==
    /\ pc = "loop"
    /\ idx <= Len(licenses)
    /\ netCalls' = netCalls + 1
    /\ queried' = Append(queried, licenses[idx])
    /\ pc' = "done"
    /\ exitCode' = 130
    /\ aborted' = TRUE
    /\ UNCHANGED <<manifest, csv, stateFile, args, state, total, licenses, idx,
                   docs, runs, startCsv, startState, results, recorded, commits,
                   pushes, failedAt, fetchedBefore, pureVars>>

\* Variant of Finish that stores this run's count instead of the new total.
FinishStoresRunCount ==
    /\ pc = "loop"
    /\ idx > Len(licenses)
    /\ total' = docs
    /\ state' = [state EXCEPT ![StateKey] = docs]
    /\ stateFile' = save_state(state')
    /\ commits' = commits + 1
    /\ pushes' = pushes + 1
    /\ netCalls' = netCalls + 1
    /\ pc' = "done"
    /\ exitCode' = 0
    /\ UNCHANGED <<manifest, csv, args, licenses, idx, docs, runs, startCsv,
                   startState, queried, results, recorded, failedAt,
                   fetchedBefore, aborted, pureVars>>

\* The loop is over: update and save the state, add_and_commit, push_changes.
Finish ==
    /\ pc = "loop"
    /\ idx > Len(licenses)
    /\ total' = total + docs
    /\ state' = [state EXCEPT ![StateKey] = total + docs]
    /\ stateFile' = save_state(state')
    /\ commits' = add_and_commit(commits)
    /\ pushes' = push_changes(pushes)
    /\ netCalls' = push_changes(netCalls)
    /\ pc' = "done"
    /\ exitCode' = 0
    /\ UNCHANGED <<manifest, csv, args, licenses, idx, docs, runs, startCsv,
                   startState, queried, results, recorded, failedAt,
                   fetchedBefore, aborted, pureVars>>

Next ==
    \/ \E L \in ArgValues : MainGoalReached(L)
    \/ \E L \in ArgValues : MainBegin(L)
    \/ SetUp
    \/ SetUpListRaises
    \/ \E c \in QueryCounts : QueryOk(c)
    \/ QueryRaises
    \/ QueryInterrupted
    \/ Finish

Spec == Init /\ [][Next]_vars

----------------------------------------------------------------------------
(* get_license_list on every small manifest *)

Chars == {"a", "/"}

Lines == SeqsUpTo(Chars, MaxLen)

\* Lines with an identifier, the same identifier and a suffix, another
\* identifier, and no identifier.
SampleLines ==
    { <<"a", "/", "a", "/", "a">>,
      <<"a", "/", "a", "/", "a", "/", "a">>,
      <<"a", "a", "/", "a", "/", "a">>,
      <<"a", "/", "a">> }

runVars == <<csv, stateFile, args, state, total, licenses, idx, docs,
             exitCode, runs, startCsv, startState, netCalls, queried,
             results, recorded, commits, pushes, failedAt, fetchedBefore, aborted>>

InitRun ==
    /\ csv = NoCsv
    /\ stateFile = NoFile
    /\ args = DefaultLicenses
    /\ state = load_state(NoFile)
    /\ total = 0
    /\ licenses = <<>>
    /\ idx = 1
    /\ docs = 0
    /\ exitCode = -1
    /\ runs = 0
    /\ startCsv = NoCsv
    /\ startState = NoFile
    /\ netCalls = 0
    /\ queried = <<>>
    /\ results = <<>>
    /\ recorded = <<>>
    /\ commits = 0
    /\ pushes = 0
    /\ failedAt = 0
    /\ fetchedBefore = {}
    /\ aborted = FALSE

InitParse ==
    /\ InitRun
    /\ \E k \in 0..MaxLines : \E sample \in [1..k -> SampleLines] :
          \/ manifest = sample
          \/ \E p \in 1..k : \E line \in Lines :
                manifest = [sample EXCEPT ![p] = line]
    /\ pc = "p_start"
    /\ parsed = <<>>
    /\ reparsed = <<>>
    /\ saved = <<>>
    /\ loaded = <<>>

\* get_license_list, then the extraction applied to the list it returned.
ParseList ==
    /\ pc = "p_start"
    /\ ~ReadCsvRaises(manifest)
    /\ parsed' = get_license_list(manifest)
    /\ reparsed' = ExtractList(parsed')
    /\ pc' = "p_parsed"
    /\ UNCHANGED <<manifest, saved, loaded, runVars>>

ParseRaises ==
    /\ pc = "p_start"
    /\ ReadCsvRaises(manifest)
    /\ pc' = "p_raised"
    /\ UNCHANGED <<manifest, parsed, reparsed, saved, loaded, runVars>>

NextParse == ParseList \/ ParseRaises

SpecParse == InitParse /\ [][NextParse]_vars

----------------------------------------------------------------------------
(* save_state and load_state on every small mapping *)

Mappings ==
    UNION {[D -> 0..MaxStateValue] : D \in SUBSET {StateKey, OtherKey}}

InitState ==
    /\ InitRun
    /\ manifest = <<>>
    /\ pc = "s_start"
    /\ parsed = <<>>
    /\ reparsed = <<>>
    /\ saved \in Mappings
    /\ loaded = <<>>

\* load_state with no state file on disk.
LoadDefault ==
    /\ pc = "s_start"
    /\ ~stateFile.exists
    /\ loaded' = load_state(stateFile)
    /\ pc' = "s_default"
    /\ UNCHANGED <<manifest, csv, stateFile, args, state, total, licenses, idx,
                   docs, exitCode, runs, startCsv, startState, netCalls,
                   queried, results, recorded, commits, pushes, failedAt,
                   fetchedBefore, aborted, parsed, reparsed, saved>>

SaveState ==
    /\ pc \in {"s_start", "s_default"}
    /\ stateFile' = save_state(saved)
    /\ pc' = "s_saved"
    /\ UNCHANGED <<manifest, csv, args, state, total, licenses, idx,
                   docs, exitCode, runs, startCsv, startState, netCalls,
                   queried, results, recorded, commits, pushes, failedAt,
                   fetchedBefore, aborted, parsed, reparsed, saved, loaded>>

LoadState ==
    /\ pc = "s_saved"
    /\ loaded' = load_state(stateFile)
    /\ pc' = "s_loaded"
    /\ UNCHANGED <<manifest, csv, stateFile, args, state, total, licenses, idx,
                   docs, exitCode, runs, startCsv, startState, netCalls,
                   queried, results, recorded, commits, pushes, failedAt,
                   fetchedBefore, aborted, parsed, reparsed, saved>>

NextState == LoadDefault \/ SaveState \/ LoadState

SpecState == InitState /\ [][NextState]_vars

----------------------------------------------------------------------------
(* Properties of get_license_list *)

\* Three non-empty segments separated by two slashes.
IsIdentifier(x) ==
    /\ Len(x) >= 5
    /\ x[1] # "/"
    /\ x[Len(x)] # "/"
    /\ Cardinality({i \in 1..Len(x) : x[i] = "/"}) = 2
    /\ \A i \in 1..(Len(x) - 1) : ~(x[i] = "/" /\ x[i + 1] = "/")

\* The line has three consecutive non-empty segments somewhere.
LineMatches(l) ==
    \E i \in 1..Len(l) : \E j \in i..Len(l) : IsIdentifier(SubSeq(l, i, j))

FirstLine(x) ==
    CHOOSE i \in 1..Len(manifest) :
        /\ Extract(manifest[i]) = x
        /\ \A j \in 1..(i - 1) : Extract(manifest[j]) # x

\* C5: the list get_license_list returns holds each identifier extracted from
\* a matching line exactly once, in order of first occurrence, holds nothing
\* for the lines that do not match, and extracting from that list again
\* returns the same list.
C5_LicenseListOrderedUniqueIdempotent ==
    pc = "p_parsed" =>
        /\ \A i \in 1..Len(manifest) :
              IF LineMatches(manifest[i])
              THEN /\ IsIdentifier(Extract(manifest[i]))
                   /\ Extract(manifest[i]) \in Range(parsed)
              ELSE Extract(manifest[i]) = NaN
        /\ \A i \in 1..Len(parsed) :
              /\ IsIdentifier(parsed[i])
              /\ \E n \in 1..Len(manifest) : Extract(manifest[n]) = parsed[i]
        /\ \A i \in 1..Len(parsed) : \A j \in 1..Len(parsed) :
              i < j => /\ parsed[i] # parsed[j]
                       /\ FirstLine(parsed[i]) < FirstLine(parsed[j])
        /\ reparsed = parsed

\* A line that matches after a leading slash, a line without a match, and a
\* different line that repeats the identifier of the first.
C5_Witness ==
    /\ pc = "p_parsed"
    /\ Len(manifest) = 3
    /\ Len(manifest[1]) > 0
    /\ manifest[1][1] = "/"
    /\ Extract(manifest[1]) # NaN
    /\ Extract(manifest[2]) = NaN
    /\ manifest[3] # manifest[1]
    /\ Extract(manifest[3]) = Extract(manifest[1])
    /\ Len(parsed) = 1
    /\ reparsed = parsed

----------------------------------------------------------------------------
(* Properties of the state store *)

\* C8: load_state after save_state(s) returns a mapping identical to s, and
\* load_state without a state file returns the default mapping with the
\* cumulative counter at 0.
C8_StateRoundTrip ==
    /\ pc = "s_loaded" => loaded = saved
    /\ pc = "s_default" => /\ DOMAIN loaded = {StateKey}
                           /\ loaded[StateKey] = 0

\* A two-key mapping with a three-digit counter went through the file.
C8_Witness ==
    /\ pc = "s_loaded"
    /\ DOMAIN saved = {StateKey, OtherKey}
    /\ saved[StateKey] >= 100
    /\ saved[OtherKey] = 8

----------------------------------------------------------------------------
(* Properties of the orchestrator *)

Counter(file) == load_state(file)[StateKey]

IsPrefix(a, b) == Len(a) <= Len(b) /\ SubSeq(b, 1, Len(a)) = a

IsData(line) == line # HeaderLine

RECURSIVE SumSeq(_)
SumSeq(ns) == IF ns = <<>> THEN 0 ELSE ns[1] + SumSeq(Tail(ns))

\* Sum of the Document Count column over the data rows.
RECURSIVE SumCounts(_)
SumCounts(lines) ==
    IF lines = <<>> THEN 0
    ELSE (IF IsData(lines[1]) THEN ParseBase(lines[1].f2, 10) ELSE 0)
         + SumCounts(Tail(lines))

\* The CSV as the current run found or initialised it.
RunBase == IF Counter(startState) = 0 THEN <<HeaderLine>> ELSE startCsv.lines

GoalRunOver == pc = "done" /\ runs > 0 /\ Counter(startState) >= goal_documents

\* C1 as stated: a run that starts with the counter at or over the goal makes
\* no network call at all, writes no file, commits and pushes nothing, exits 0.
C1_GoalRunNoNetworkCall ==
    GoalRunOver =>
        /\ netCalls = 0
        /\ csv = startCsv
        /\ stateFile = startState
        /\ queried = <<>>
        /\ commits = 0
        /\ pushes = 0
        /\ exitCode = 0

\* C1 amended: such a run issues no query, leaves the CSV and the state file
\* unchanged, commits and pushes nothing and exits 0; its only network
\* operation is the fetch_and_merge at the start of main.
C1_GoalRunOnlyFetches ==
    GoalRunOver =>
        /\ netCalls = 1
        /\ csv = startCsv
        /\ stateFile = startState
        /\ queried = <<>>
        /\ commits = 0
        /\ pushes = 0
        /\ exitCode = 0

C1_Witness ==
    /\ GoalRunOver
    /\ runs >= 2
    /\ Counter(startState) = goal_documents
    /\ exitCode = 0

\* C2: a run that starts with the counter at 0 and whose queries all succeed
\* ends with the CSV holding the header and one row per processed license,
\* in manifest order with that license's count, and with the stored counter
\* equal to the sum of those counts.
C2_FreshRunCsvAndCounter ==
    (pc = "done" /\ exitCode = 0 /\ runs > 0 /\ Counter(startState) = 0) =>
        LET ids == get_license_list(manifest)
            k == Len(queried)
        IN  /\ k <= Len(ids)
            /\ args >= 0 => k = Min(args, Len(ids))
            /\ Len(results) = k
            /\ Len(csv.lines) = k + 1
            /\ csv.lines[1] = HeaderLine
            /\ \A i \in 1..k :
                  /\ csv.lines[i + 1].f1 = ids[i]
                  /\ ParseBase(csv.lines[i + 1].f2, 10) = results[i]
            /\ stateFile.exists
            /\ Counter(stateFile) = SumSeq(results)

C2_Witness ==
    /\ pc = "done"
    /\ exitCode = 0
    /\ Counter(startState) = 0
    /\ results = <<400, 600>>
    /\ Len(csv.lines) = 3

\* C3: when the query for the i-th license raises, the run ends with exit
\* code 1, no row for that license was recorded, and no later license was
\* queried or recorded.
C3_QueryFailureAborts ==
    failedAt > 0 =>
        /\ pc = "done"
        /\ exitCode = 1
        /\ Len(queried) = failedAt
        /\ Len(recorded) = failedAt - 1
        /\ Len(results) = failedAt - 1
        /\ csv.lines = RunBase \o recorded
        /\ \A i \in 1..Len(recorded) : recorded[i].f1 # licenses[failedAt]

\* The second of three licenses failed.
C3_Witness ==
    /\ pc = "done"
    /\ failedAt = 2
    /\ Len(licenses) = 3

\* C4: only a run that starts with the counter at 0 writes the header; a run
\* that starts with a positive counter keeps the rows it found and appends
\* data rows; the CSV always has exactly one header line, the first.
C4_SingleHeader ==
    /\ pc \in {"loop", "done"} => csv.exists
    /\ csv.exists =>
          /\ Len(csv.lines) >= 1
          /\ csv.lines[1] = HeaderLine
          /\ \A i \in 2..Len(csv.lines) : csv.lines[i] # HeaderLine
    /\ (runs > 0 /\ Counter(startState) > 0) =>
          /\ IsPrefix(startCsv.lines, csv.lines)
          /\ csv.lines = startCsv.lines \o recorded

\* A later run appended rows behind the rows of an earlier run.
C4_Witness ==
    /\ pc = "done"
    /\ runs >= 2
    /\ Counter(startState) > 0
    /\ Len(recorded) >= 1
    /\ Len(csv.lines) > Len(recorded) + 1

\* C6 as stated: the number of licenses a run queries is at most the value
\* of --licenses (none for a value below 1), and they are the first licenses
\* of the manifest list in order.
C6_LicensesCapped ==
    /\ Len(queried) <= Max(args, 0)
    /\ IsPrefix(queried, get_license_list(manifest))

\* C7 as stated: no run queries a license that an earlier successful run
\* recorded, the CSV has at most one data row per license, and no step
\* removes a line of the CSV.
C7_ResumeNoRefetch ==
    [][ /\ \A i \in 1..Len(queried') : queried'[i] \notin fetchedBefore'
        /\ \A i \in 1..Len(csv'.lines) : \A j \in 1..Len(csv'.lines) :
              (i # j /\ IsData(csv'.lines[i])) => csv'.lines[i].f1 # csv'.lines[j].f1
        /\ IsPrefix(csv.lines, csv'.lines) ]_vars

\* C9: a run that fails in the query loop leaves the state file as it was
\* when the run started and commits and pushes nothing, and the rows recorded
\* for the earlier licenses of the run are in the CSV.
C9_FailedRunKeepsStateAndRows ==
    (pc = "done" /\ failedAt > 0) =>
        /\ stateFile = startState
        /\ Counter(stateFile) = Counter(startState)
        /\ commits = 0
        /\ pushes = 0
        /\ Len(csv.lines) = Len(RunBase) + failedAt - 1
        /\ \A i \in 1..(failedAt - 1) :
              csv.lines[Len(RunBase) + i] = Row(licenses[i], results[i])

\* A run that started with a positive counter failed after recording a row.
C9_Witness ==
    /\ pc = "done"
    /\ failedAt >= 2
    /\ Counter(startState) > 0
    /\ results[1] > 0

\* C10: while no run has failed, the stored counter at the end of a run is
\* the sum of the counts of the data rows in the CSV; the stored counter is
\* never negative and never decreases.
C10_CounterMatchesCsv ==
    [][ /\ (pc' = "done" /\ ~aborted') =>
              Counter(stateFile') = SumCounts(csv'.lines)
        /\ Counter(stateFile') >= 0
        /\ Counter(stateFile') >= Counter(stateFile) ]_vars

\* The third run in a row added to a positive counter.
C10_Witness ==
    /\ pc = "done"
    /\ ~aborted
    /\ runs = 3
    /\ Counter(startState) > 0
    /\ Counter(stateFile) > Counter(startState)
    /\ Len(csv.lines) > 3

====
